---- MODULE Spec2Model ----
(***************************************************************************)
(* Verification model of ell-cpp: the cutting-plane drivers                *)
(* (cutting_plane_feas, cutting_plane_optim, cutting_plane_q, bsearch,     *)
(* bsearch_adaptor) and the LDLT manager used by the matrix-inequality     *)
(* oracles.                                                                *)
(*                                                                         *)
(* The drivers are templates over an Oracle and a Space.  Neither the      *)
(* oracle nor the space decides what a driver does with their answers, so  *)
(* both are environments here: every answer the interface allows is drawn  *)
(* nondeterministically.  Each driver is a small state machine whose       *)
(* program counter walks the statements of its loop body.                  *)
(***************************************************************************)
EXTENDS Integers, Sequences, FiniteSets, TLC

VARIABLES
  prog,        \* which entry point this run executes
  pc,          \* position inside the running function
  options,     \* Options {max_iter, tol}
  space,       \* the Space the driver works on: [xc, tsq, shape]
  niter,       \* loop counter of the driver
  cut,         \* the driver's local `cut` (NoCut = nullptr / not yet set)
  shrunk,      \* the driver's local `shrunk`
  x_best,      \* the driver's local `x_best`
  retry,       \* cutting_plane_q: local `retry`
  status,      \* cutting_plane_q: local `status`
  more_alt,    \* cutting_plane_q: local `more_alt`
  ret,         \* the value returned (NoRet while running)
  calls,       \* observation: number of oracle calls made so far
  updates,     \* observation: number of space.update calls made so far
  ev,          \* observation: the last oracle call / space.update and its answer
  obs,         \* observation: per-run summary (see the drivers)
  lower,       \* bsearch: intvl.first
  upper,       \* bsearch: intvl.second
  u_orig,      \* bsearch: local `u_orig`
  outer,       \* bsearch_adaptor: the Space `_space` refers to
  omega,       \* bsearch_adaptor: the target last given to `_omega.update`
  tea,         \* bsearch_adaptor: the argument of the running assess_bs
  n,           \* LDLTMgr: _n
  A,           \* LDLTMgr: the matrix behind the accessor of the last call
  T,           \* LDLTMgr: the workspace T
  p,           \* LDLTMgr: p = (start, stop)
  witness_vec, \* LDLTMgr: witness_vec
  reads,       \* observation: the accessor calls (i, j) of the last call, in order
  lmi          \* LmiOracle: _F0, _F, cut, the locals x, g, ep of assess_feas

drv_vars == <<prog, pc, options, space, niter, cut, shrunk, x_best, retry,
              status, more_alt, ret, calls, updates, ev, obs>>

bs_vars == <<lower, upper, u_orig, outer, omega, tea>>

ldlt_vars == <<n, A, T, p, witness_vec, reads, lmi>>

vars == <<drv_vars, bs_vars, ldlt_vars>>

----------------------------------------------------------------------------
(* Bounds of the model *)

MaxIter == 3
MaxPt == 2
MaxTsq == 2
MaxCut == 2

----------------------------------------------------------------------------
(* ell_config.hpp *)

CutStatus == {"Success", "NoSoln", "SmallEnough", "NoEffect"}

OptionsSet == [max_iter : 0..MaxIter, tol : 1..MaxTsq]

Points == 0..MaxPt          \* abstract values of a center / lattice point
TsqVals == 0..MaxTsq        \* abstract values of tsq
Cuts == 1..MaxCut           \* abstract cuts (g, beta)
NoCut == 0                  \* nullptr returned by assess_feas
Empty == -1                 \* a value-initialised (empty) array x_best{}
NoRet == [none |-> TRUE]

\* struct CInfo {feasible, num_iters, status}: the drivers brace-initialise the
\* first two members, which value-initialises status to the first enumerator
CInfo(feasible, num_iters) ==
  [feasible |-> feasible, num_iters |-> num_iters, status |-> "Success"]

NoEv == [op |-> "none"]

(* The Space contract: update(cut) answers a CutStatus.  A Success moves   *)
(* the center and changes the shape; any other status leaves center and    *)
(* shape alone.  The cached tsq is read by the drivers after every update  *)
(* and is left unconstrained.  `shape` counts the rank-one updates applied.*)
SpaceUpdate(sp, c) ==
  {[status |-> "Success", space |-> [xc |-> x, tsq |-> t, shape |-> sp.shape + 1]] :
      x \in Points, t \in TsqVals}
  \cup
  {[status |-> s, space |-> [sp EXCEPT !.tsq = t]] :
      s \in CutStatus \ {"Success"}, t \in TsqVals}

InitSpaces == {[xc |-> x, tsq |-> 0, shape |-> 0] : x \in Points}

\* the variables of bsearch / bsearch_adaptor while no such object exists
BsIdle ==
  /\ lower = 0 /\ upper = 0 /\ u_orig = 0
  /\ outer = [xc |-> 0, tsq |-> 0, shape |-> 0]
  /\ omega = 0 /\ tea = 0

\* the variables of the LDLT manager while no manager exists
LdltIdle ==
  /\ n = 0 /\ A = <<>> /\ T = <<>> /\ p = <<0, 0>>
  /\ witness_vec = <<>> /\ reads = <<>>
  /\ lmi = <<>>

----------------------------------------------------------------------------
(* cutting_plane_feas *)

\* line 122: cutstatus != CutStatus::Success || space.tsq() < options.tol
feas_stop_tsq_ignored(cutstatus, tsq, tol) == cutstatus # "Success"

feas_stop(cutstatus, tsq, tol) == cutstatus # "Success" \/ tsq < tol

\* line 116: the loop condition niter != options.max_iter
feas_loop(k, max_iter) == k # max_iter

\* the locals of the three cutting-plane drivers before their loops start
DriverLocals ==
  /\ niter = 0
  /\ cut = NoCut
  /\ shrunk = FALSE
  /\ x_best = Empty
  /\ more_alt = FALSE
  /\ ret = NoRet
  /\ calls = 0
  /\ updates = 0
  /\ ev = NoEv

InitFeas ==
  /\ BsIdle /\ LdltIdle
  /\ prog = "feas"
  /\ pc = "assess"
  /\ options \in OptionsSet
  /\ space \in InitSpaces
  /\ DriverLocals
  /\ retry = FALSE
  /\ status = "NoSoln"
  /\ obs = [bad_at |-> -1]

\* lines 116-120: one oracle call; null ends the run with {true, niter}
cutting_plane_feas_assess ==
  /\ UNCHANGED <<bs_vars, ldlt_vars>>
  /\ prog \in {"feas", "adaptor"} /\ pc = "assess"
  /\ feas_loop(niter, options.max_iter)
  /\ \E c \in Cuts \cup {NoCut} :
       /\ cut' = c
       /\ calls' = calls + 1
       /\ ev' = [op |-> "assess", xc |-> space.xc, cut |-> c]
       /\ IF c = NoCut
            THEN /\ ret' = CInfo(TRUE, niter)
                 /\ pc' = "done"
            ELSE /\ ret' = ret
                 /\ pc' = "update"
  /\ UNCHANGED <<prog, options, space, niter, shrunk, x_best, retry, status,
                 more_alt, updates, obs>>

\* lines 121-124 and the ++niter of line 116
cutting_plane_feas_update ==
  /\ UNCHANGED <<bs_vars, ldlt_vars>>
  /\ prog \in {"feas", "adaptor"} /\ pc = "update"
  /\ \E r \in SpaceUpdate(space, cut) :
       /\ space' = r.space
       /\ updates' = updates + 1
       /\ ev' = [op |-> "update", cut |-> cut, status |-> r.status,
                 tsq |-> r.space.tsq]
       /\ obs' = IF obs.bad_at = -1
                    /\ (r.status # "Success" \/ r.space.tsq < options.tol)
                   THEN [obs EXCEPT !.bad_at = updates]
                   ELSE obs
       /\ IF feas_stop(r.status, r.space.tsq, options.tol)
            THEN /\ ret' = CInfo(FALSE, niter)
                 /\ pc' = "done"
                 /\ niter' = niter
            ELSE /\ ret' = ret
                 /\ pc' = "assess"
                 /\ niter' = niter + 1
  /\ UNCHANGED <<prog, options, cut, shrunk, x_best, retry, status, more_alt,
                 calls>>

\* line 126: the loop ran out
cutting_plane_feas_cap ==
  /\ UNCHANGED <<bs_vars, ldlt_vars>>
  /\ prog \in {"feas", "adaptor"} /\ pc = "assess"
  /\ ~feas_loop(niter, options.max_iter)
  /\ ret' = CInfo(FALSE, options.max_iter)
  /\ pc' = "done"
  /\ UNCHANGED <<prog, options, space, niter, cut, shrunk, x_best, retry,
                 status, more_alt, calls, updates, ev, obs>>

NextFeas ==
  \/ cutting_plane_feas_assess
  \/ cutting_plane_feas_update
  \/ cutting_plane_feas_cap

SpecFeas == InitFeas /\ [][NextFeas]_vars

(* C1: cutting_plane_feas answers feasible = true only right after an      *)
(* assess_feas call that returned null, with num_iters = the number of     *)
(* space.update calls made so far and no update in that iteration;         *)
(* otherwise it answers (false, k) at the first iteration k whose update   *)
(* is not Success or leaves tsq < tol, and (false, max_iter) when neither  *)
(* happened in max_iter iterations; the oracle is called at most max_iter  *)
(* times.                                                                  *)
C1_FeasContract ==
  /\ calls <= options.max_iter
  /\ obs.bad_at # -1 => pc = "done" /\ ~ret.feasible
  /\ pc = "done" /\ ret.feasible =>
       /\ ev.op = "assess" /\ ev.cut = NoCut /\ ev.xc = space.xc
       /\ ret.num_iters = updates
       /\ calls = updates + 1
  /\ pc = "done" /\ ~ret.feasible =>
       IF obs.bad_at # -1
         THEN /\ ret.num_iters = obs.bad_at
              /\ ev.op = "update"
              /\ updates = obs.bad_at + 1
         ELSE /\ ret.num_iters = options.max_iter
              /\ updates = options.max_iter
              /\ calls = options.max_iter

C1_Witness ==
  /\ pc = "done" /\ ret.feasible /\ ret.num_iters = 2
  /\ options.max_iter = 3

----------------------------------------------------------------------------
(* cutting_plane_optim *)

\* lines 158-159: cutstatus != CutStatus::Success || space.tsq() < options.tol
optim_stop_tsq_inclusive(cutstatus, tsq, tol) ==
  cutstatus # "Success" \/ tsq <= tol

optim_stop(cutstatus, tsq, tol) == cutstatus # "Success" \/ tsq < tol

\* lines 151-152: x_best = space.xc() is executed before space.update(cut)
optim_record_after_update(sh, xb, xc_before, xc_after) ==
  IF sh THEN xc_after ELSE xb

optim_record_on_success(sh, xb, xc_before, xc_after, cutstatus) ==
  IF sh /\ cutstatus = "Success" THEN xc_before ELSE xb

optim_record(sh, xb, xc_before, xc_after) == IF sh THEN xc_before ELSE xb

\* lines 150-157: the lambda; both branches call space.update(cut)
optim_x_best(sh, xb, xc_before, xc_after, cutstatus) ==
  optim_record(sh, xb, xc_before, xc_after)

InitOptim ==
  /\ BsIdle /\ LdltIdle
  /\ prog = "optim"
  /\ pc = "assess"
  /\ options \in OptionsSet
  /\ space \in InitSpaces
  /\ DriverLocals
  /\ retry = FALSE
  /\ status = "NoSoln"
  /\ obs = [bad_at |-> -1, oracle_cut |-> NoCut, shrunk_seen |-> FALSE,
            shrunk_xc |-> Empty, shrunk_success |-> FALSE]

\* lines 146-149: the oracle call of one iteration
cutting_plane_optim_assess ==
  /\ UNCHANGED <<bs_vars, ldlt_vars>>
  /\ prog = "optim" /\ pc = "assess"
  /\ niter < options.max_iter
  /\ \E c \in Cuts, sh \in BOOLEAN :
       /\ cut' = c
       /\ shrunk' = sh
       /\ calls' = calls + 1
       /\ ev' = [op |-> "assess", xc |-> space.xc, cut |-> c, shrunk |-> sh]
       /\ obs' = [obs EXCEPT !.oracle_cut = c,
                             !.shrunk_seen = @ \/ sh,
                             !.shrunk_xc = IF sh THEN space.xc ELSE @]
  /\ pc' = "update"
  /\ UNCHANGED <<prog, options, space, niter, x_best, retry, status, more_alt,
                 ret, updates>>

\* lines 150-161 and the ++niter of line 146
cutting_plane_optim_update ==
  /\ UNCHANGED <<bs_vars, ldlt_vars>>
  /\ prog = "optim" /\ pc = "update"
  /\ \E r \in SpaceUpdate(space, cut) :
       LET xb == optim_x_best(shrunk, x_best, space.xc, r.space.xc, r.status) IN
       /\ space' = r.space
       /\ x_best' = xb
       /\ updates' = updates + 1
       /\ ev' = [op |-> "update", cut |-> cut, status |-> r.status,
                 tsq |-> r.space.tsq]
       /\ obs' = [obs EXCEPT
                    !.bad_at = IF @ = -1 /\ (r.status # "Success"
                                             \/ r.space.tsq < options.tol)
                                 THEN updates ELSE @,
                    !.shrunk_success = @ \/ (shrunk /\ r.status = "Success")]
       /\ IF optim_stop(r.status, r.space.tsq, options.tol)
            THEN /\ ret' = [x_best |-> xb, num_iters |-> niter]
                 /\ pc' = "done"
                 /\ niter' = niter
            ELSE /\ ret' = ret
                 /\ pc' = "assess"
                 /\ niter' = niter + 1
  /\ UNCHANGED <<prog, options, cut, shrunk, retry, status, more_alt, calls>>

\* line 163: the loop ran out
cutting_plane_optim_cap ==
  /\ UNCHANGED <<bs_vars, ldlt_vars>>
  /\ prog = "optim" /\ pc = "assess"
  /\ ~(niter < options.max_iter)
  /\ ret' = [x_best |-> x_best, num_iters |-> options.max_iter]
  /\ pc' = "done"
  /\ UNCHANGED <<prog, options, space, niter, cut, shrunk, x_best, retry,
                 status, more_alt, calls, updates, ev, obs>>

NextOptim ==
  \/ cutting_plane_optim_assess
  \/ cutting_plane_optim_update
  \/ cutting_plane_optim_cap

SpecOptim == InitOptim /\ [][NextOptim]_vars

(* C2: in cutting_plane_optim every assess_optim call is followed by       *)
(* exactly one space.update, made with the cut that call returned, whether *)
(* shrunk or not; the driver returns num_iters = k at the first iteration  *)
(* k whose update is not Success or leaves tsq < tol, and max_iter only    *)
(* after max_iter iterations without either, so every other return has     *)
(* num_iters < max_iter.                                                   *)
C2_OptimLoop ==
  /\ pc = "update" => calls = updates + 1 /\ ev.op = "assess"
  /\ pc # "update" => calls = updates
  /\ ev.op = "update" => ev.cut = obs.oracle_cut
  /\ obs.bad_at # -1 => pc = "done"
  /\ pc = "done" =>
       IF obs.bad_at # -1
         THEN /\ ret.num_iters = obs.bad_at
              /\ updates = obs.bad_at + 1
              /\ ret.num_iters < options.max_iter
         ELSE /\ ret.num_iters = options.max_iter
              /\ updates = options.max_iter

C2_Witness ==
  /\ pc = "done" /\ ret.num_iters = 2 /\ options.max_iter = 3
  /\ shrunk /\ ev.op = "update" /\ ev.status = "Success"

(* C3: the x_best returned by cutting_plane_optim is the center that was   *)
(* handed to the oracle in the last iteration whose assess_optim answered  *)
(* shrunk = true (the center before that iteration's update); iterations   *)
(* with shrunk = false leave x_best alone.                                 *)
C3_BestIsCenterBeforeUpdate ==
  /\ pc # "update" /\ obs.shrunk_seen => x_best = obs.shrunk_xc
  /\ pc = "done" /\ obs.shrunk_seen => ret.x_best = obs.shrunk_xc

C3_Witness ==
  /\ pc = "done" /\ obs.shrunk_seen /\ ~shrunk
  /\ ret.x_best # space.xc /\ ret.num_iters = 2

(* C4 as claimed: x_best is non-empty only if some iteration had           *)
(* shrunk = true and the update of that same cut returned Success.         *)
C4_Original ==
  pc = "done" /\ ret.x_best # Empty => obs.shrunk_success

(* C4 as amended: x_best is empty exactly when no assess_optim call        *)
(* answered shrunk = true; it is non-empty as soon as one did, whatever    *)
(* status the update of that cut returned.                                 *)
C4_EmptyIffNeverShrunk ==
  pc = "done" => (ret.x_best = Empty <=> ~obs.shrunk_seen)

C4_Witness ==
  /\ pc = "done" /\ ret.x_best # Empty /\ ~obs.shrunk_success
  /\ ev.status = "NoSoln"

----------------------------------------------------------------------------
(* cutting_plane_q *)

\* lines 182-183: status = NoSoln; retry = (status == CutStatus::NoEffect)
q_initial_retry == ("NoSoln" = "NoEffect")

\* lines 198-209: what the driver does after space.update answered
\* cutstatus: "break", "return" (with niter) or "continue" (next iteration)
q_after_update_ignores_more_alt(cutstatus, alt, tsq, tol) ==
  IF cutstatus = "NoSoln" THEN "return"
  ELSE IF tsq < tol THEN "return"
  ELSE "continue"

q_after_update(cutstatus, alt, tsq, tol) ==
  IF cutstatus = "NoEffect" /\ ~alt THEN "break"
  ELSE IF cutstatus = "NoSoln" THEN "return"
  ELSE IF tsq < tol THEN "return"
  ELSE "continue"

InitQ ==
  /\ BsIdle /\ LdltIdle
  /\ prog = "q"
  /\ pc = "assess"
  /\ options \in OptionsSet
  /\ space \in InitSpaces
  /\ DriverLocals
  /\ status = "NoSoln"
  /\ retry = q_initial_retry
  /\ obs = [stop_at |-> -1, noeffect_alt |-> FALSE, broke |-> FALSE]

\* lines 185-191: the oracle call assess_q(space.xc(), tea, retry); x0 is the
\* lattice point the oracle evaluated, recorded as x_best when shrunk (192-195)
cutting_plane_q_assess ==
  /\ UNCHANGED <<bs_vars, ldlt_vars>>
  /\ prog = "q" /\ pc = "assess"
  /\ niter < options.max_iter
  /\ \E c \in Cuts, sh \in BOOLEAN, x0 \in Points, alt \in BOOLEAN :
       /\ cut' = c
       /\ shrunk' = sh
       /\ more_alt' = alt
       /\ x_best' = IF sh THEN x0 ELSE x_best
       /\ ev' = [op |-> "assess", retry |-> retry, more_alt |-> alt]
  /\ calls' = calls + 1
  /\ pc' = "update"
  /\ UNCHANGED <<prog, options, space, niter, retry, status, ret, updates, obs>>

\* lines 196-209 and the ++niter of line 185; a break leaves the loop and
\* reaches the return of line 211
cutting_plane_q_update ==
  /\ UNCHANGED <<bs_vars, ldlt_vars>>
  /\ prog = "q" /\ pc = "update"
  /\ \E r \in SpaceUpdate(space, cut) :
       LET what == q_after_update(r.status, more_alt, r.space.tsq, options.tol)
           noeff == r.status = "NoEffect" /\ what # "break"
       IN
       /\ space' = r.space
       /\ updates' = updates + 1
       /\ ev' = [op |-> "update", status |-> r.status, more_alt |-> more_alt,
                 tsq |-> r.space.tsq]
       /\ status' = IF noeff THEN r.status ELSE status
       /\ retry' = IF noeff THEN TRUE ELSE retry
       /\ obs' = [obs EXCEPT
                    !.stop_at = IF @ = -1 /\ what # "continue" THEN updates ELSE @,
                    !.noeffect_alt = @ \/ (r.status = "NoEffect" /\ more_alt),
                    !.broke = @ \/ what = "break"]
       /\ CASE what = "break" ->
                 /\ ret' = [x_best |-> x_best, num_iters |-> options.max_iter]
                 /\ pc' = "done"
                 /\ niter' = niter
            [] what = "return" ->
                 /\ ret' = [x_best |-> x_best, num_iters |-> niter]
                 /\ pc' = "done"
                 /\ niter' = niter
            [] OTHER ->
                 /\ ret' = ret
                 /\ pc' = "assess"
                 /\ niter' = niter + 1
  /\ UNCHANGED <<prog, options, cut, shrunk, x_best, more_alt, calls>>

\* line 211: the loop ran out
cutting_plane_q_cap ==
  /\ UNCHANGED <<bs_vars, ldlt_vars>>
  /\ prog = "q" /\ pc = "assess"
  /\ ~(niter < options.max_iter)
  /\ ret' = [x_best |-> x_best, num_iters |-> options.max_iter]
  /\ pc' = "done"
  /\ UNCHANGED <<prog, options, space, niter, cut, shrunk, x_best, retry,
                 status, more_alt, calls, updates, ev, obs>>

NextQ ==
  \/ cutting_plane_q_assess
  \/ cutting_plane_q_update
  \/ cutting_plane_q_cap

SpecQ == InitQ /\ [][NextQ]_vars

(* C5: in cutting_plane_q the first assess_q call gets retry = false, and  *)
(* retry is true only after an update of the same run returned NoEffect    *)
(* while the oracle reported more_alt = true.  After an update that        *)
(* returned NoEffect with more_alt = false no further assess_q or update   *)
(* call is made; after an update that returned NoSoln the driver returns   *)
(* (x_best, niter) without another oracle call.                            *)
C5_RetryHandshake ==
  /\ calls = 0 => ~retry
  /\ ev.op = "assess" /\ calls = 1 => ~ev.retry
  /\ retry => obs.noeffect_alt
  /\ ev.op = "assess" /\ ev.retry => obs.noeffect_alt
  /\ ev.op = "update" /\ ev.status = "NoEffect" /\ ~ev.more_alt => pc = "done"
  /\ ev.op = "update" /\ ev.status = "NoSoln" =>
       /\ pc = "done"
       /\ ret = [x_best |-> x_best, num_iters |-> updates - 1]
       /\ calls = updates

C5_Witness ==
  /\ ev.op = "assess" /\ ev.retry /\ calls = 2
  /\ obs.noeffect_alt

(* C6: niter < max_iter tells a stop from the iteration cap: whenever      *)
(* cutting_plane_q stops before running max_iter iterations (in particular *)
(* after NoEffect with more_alt = false) it returns the index of the       *)
(* iteration at which it stopped, which is below max_iter; it returns      *)
(* max_iter only when max_iter iterations were executed.                   *)
C6_StopIndexBelowCap ==
  pc = "done" =>
    IF obs.stop_at # -1
      THEN ret.num_iters = obs.stop_at /\ ret.num_iters < options.max_iter
      ELSE ret.num_iters = options.max_iter /\ updates = options.max_iter

(* C17: in cutting_plane_q the retry flag passed to assess_q is true       *)
(* exactly when the immediately preceding space.update of the same run     *)
(* returned NoEffect (with more_alt = true): after an update that returned *)
(* Success the next assess_q call is made with retry = false again.        *)
C17_RetryFollowsLastUpdate ==
  [][ev'.op = "assess" =>
       (ev'.retry <=>
          (ev.op = "update" /\ ev.status = "NoEffect" /\ ev.more_alt))]_vars

----------------------------------------------------------------------------
(* bsearch *)

(* The interval bounds and tol are real numbers.  They are kept here as    *)
(* integers in units of 1/Scale with Scale = 2^MaxIter, and every run      *)
(* starts from whole numbers, so that each of the at most MaxIter halvings *)
(* of upper - lower is exact.                                              *)
MaxVal == 2

RECURSIVE Pow2(_)
Pow2(k) == IF k = 0 THEN 1 ELSE 2 * Pow2(k - 1)

Scale == Pow2(MaxIter)

\* algo::half_nonnegative(x): half of a non-negative number
half_nonnegative(x) == x \div 2

\* line 236: tau < options.tol
bs_small_inclusive(tau, tol) == tau <= tol

bs_small(tau, tol) == tau < tol

\* lines 241-245: a feasible probe lowers upper, an infeasible one raises lower
bs_narrow_swapped(ans, lo, hi, t) ==
  IF ans THEN [lower |-> t, upper |-> hi] ELSE [lower |-> lo, upper |-> t]

bs_narrow(ans, lo, hi, t) ==
  IF ans THEN [lower |-> lo, upper |-> t] ELSE [lower |-> t, upper |-> hi]

\* lines 236 and 247 with the comparison inverted
bs_feasible_inverted(up, orig) == up = orig

\* lines 236 and 247: the feasible flag is upper != u_orig
bs_feasible(up, orig) == up # orig

InitBsearch ==
  /\ prog = "bsearch"
  /\ pc = "loop"
  /\ options \in [max_iter : 0..MaxIter, tol : 1..Scale]
  /\ \E l \in 0..MaxVal, u \in 0..MaxVal :
       /\ l <= u                                    \* assert(lower <= upper)
       /\ lower = l * Scale /\ upper = u * Scale /\ u_orig = u * Scale
       /\ obs = [lower0 |-> l * Scale, upper0 |-> u * Scale, exact |-> TRUE,
                 any_true |-> FALSE]
  /\ space = [xc |-> 0, tsq |-> 0, shape |-> 0]
  /\ DriverLocals
  /\ retry = FALSE
  /\ status = "NoSoln"
  /\ outer = [xc |-> 0, tsq |-> 0, shape |-> 0]
  /\ omega = 0 /\ tea = 0
  /\ LdltIdle

\* lines 234-246: one pass through the loop body, the probe included
bsearch_iterate ==
  /\ prog = "bsearch" /\ pc = "loop"
  /\ niter < options.max_iter
  /\ LET tau == half_nonnegative(upper - lower) IN
     IF bs_small(tau, options.tol)
       THEN /\ ret' = CInfo(bs_feasible(upper, u_orig), niter)
            /\ pc' = "done"
            /\ UNCHANGED <<lower, upper, niter, calls, ev>>
            /\ obs' = [obs EXCEPT !.exact = @ /\ 2 * tau = upper - lower]
       ELSE \E ans \in BOOLEAN :
              LET t == lower + tau
                  nw == bs_narrow(ans, lower, upper, t)
              IN
              /\ lower' = nw.lower
              /\ upper' = nw.upper
              /\ niter' = niter + 1
              /\ calls' = calls + 1
              /\ ev' = [op |-> "assess_bs", tea |-> t, ans |-> ans,
                        lower |-> lower, upper |-> upper]
              /\ obs' = [obs EXCEPT !.exact = @ /\ 2 * tau = upper - lower,
                                    !.any_true = @ \/ ans]
              /\ UNCHANGED <<ret, pc>>
  /\ UNCHANGED <<prog, options, space, cut, shrunk, x_best, retry, status,
                 more_alt, updates, u_orig, outer, omega, tea>>
  /\ UNCHANGED ldlt_vars

\* line 247: the loop ran out
bsearch_cap ==
  /\ prog = "bsearch" /\ pc = "loop"
  /\ ~(niter < options.max_iter)
  /\ ret' = CInfo(bs_feasible(upper, u_orig), options.max_iter)
  /\ pc' = "done"
  /\ UNCHANGED <<prog, options, space, niter, cut, shrunk, x_best, retry,
                 status, more_alt, calls, updates, ev, obs>>
  /\ UNCHANGED <<bs_vars, ldlt_vars>>

NextBsearch ==
  \/ bsearch_iterate
  \/ bsearch_cap

SpecBsearch == InitBsearch /\ [][NextBsearch]_vars

(* C7: bsearch terminates after at most max_iter calls of assess_bs, and   *)
(* when it returns either upper - lower < 2 tol or num_iters = max_iter.   *)
C7_BsearchTerminates ==
  /\ calls <= options.max_iter
  /\ niter <= options.max_iter
  /\ calls = niter
  /\ pc # "done" => ENABLED NextBsearch
  /\ pc = "done" =>
       \/ upper - lower < 2 * options.tol
       \/ ret.num_iters = options.max_iter

C7_Witness ==
  /\ pc = "done" /\ ret.num_iters = 2 /\ options.max_iter = 3
  /\ upper - lower < 2 * options.tol
  /\ upper - lower >= options.tol

(* C8: each bsearch iteration probes the midpoint                          *)
(* tea = lower + (upper - lower)/2; a true answer changes only upper (to   *)
(* tea), a false one only lower (to tea).  With lower <= upper at the      *)
(* start, lower <= upper always holds, lower never decreases, upper never  *)
(* increases and the interval stays inside the initial one.                *)
C8_BsearchInterval ==
  /\ lower <= upper
  /\ obs.lower0 <= lower /\ upper <= obs.upper0
  /\ obs.exact
  /\ ev.op = "assess_bs" =>
       /\ 2 * ev.tea = ev.lower + ev.upper
       /\ ev.lower <= lower /\ upper <= ev.upper
       /\ IF ev.ans THEN upper = ev.tea /\ lower = ev.lower
                    ELSE lower = ev.tea /\ upper = ev.upper

C8_Witness ==
  /\ ev.op = "assess_bs" /\ calls = 3
  /\ obs.lower0 < lower /\ upper < obs.upper0 /\ lower < upper

(* C18: with tol > 0 and exact arithmetic the feasible flag returned by    *)
(* bsearch is true iff at least one assess_bs call of that run returned    *)
(* true (equivalently iff upper differs from its initial value on return); *)
(* it is false when the loop exits before any assess_bs call or when every *)
(* probe was infeasible.                                                   *)
C18_FeasibleIffSomeProbeTrue ==
  pc = "done" =>
    /\ ret.feasible = obs.any_true
    /\ ret.feasible = (upper # obs.upper0)
    /\ calls = 0 => ~ret.feasible

C18_Witness ==
  /\ pc = "done" /\ ret.feasible /\ calls = 3
  /\ ev.op = "assess_bs" /\ ~ev.ans
  /\ obs.any_true

----------------------------------------------------------------------------
(* bsearch_adaptor *)

\* the targets handed to assess_bs
TeaVals == {1, 2}

\* Space::copy(): an independent Space with the same center, shape and tsq
Copy(sp) == sp

\* lines 304-306: if (ell_info.feasible) this->_space.set_xc(space.xc())
assess_bs_commit_whole_space(feasible, out, inn) ==
  IF feasible THEN inn ELSE out

assess_bs_commit(feasible, out, inn) ==
  IF feasible THEN [out EXCEPT !.xc = inn.xc] ELSE out

\* a bsearch_adaptor built on an oracle and a space (lines 272-283); nothing
\* has been asked of it yet
InitAdaptor ==
  /\ prog = "adaptor"
  /\ pc = "idle"
  /\ options \in OptionsSet
  /\ outer \in [xc : Points, tsq : TsqVals, shape : 0..1]
  /\ omega = 0 /\ tea = 0
  /\ space = [xc |-> 0, tsq |-> 0, shape |-> 0]
  /\ DriverLocals
  /\ retry = FALSE
  /\ status = "NoSoln"
  /\ lower = 0 /\ upper = 0 /\ u_orig = 0
  /\ obs = [bad_at |-> -1, outer0 |-> outer, before |-> outer]
  /\ LdltIdle

\* lines 300-303: copy the space, omega.update(tea), enter cutting_plane_feas
assess_bs_begin ==
  /\ prog = "adaptor" /\ pc = "idle"
  /\ \E t \in TeaVals :
       /\ tea' = t
       /\ omega' = t
  /\ space' = Copy(outer)
  /\ niter' = 0 /\ cut' = NoCut /\ ret' = NoRet
  /\ calls' = 0 /\ updates' = 0
  /\ ev' = [op |-> "begin"]
  /\ obs' = [obs EXCEPT !.bad_at = -1, !.before = outer]
  /\ pc' = "assess"
  /\ UNCHANGED <<prog, options, shrunk, x_best, retry, status, more_alt,
                 lower, upper, u_orig, outer>>
  /\ UNCHANGED ldlt_vars

\* lines 304-307: cutting_plane_feas has returned ell_info; the local copy
\* `space` and the locals of the inner run end here
assess_bs_end ==
  /\ prog = "adaptor" /\ pc = "done"
  /\ outer' = assess_bs_commit(ret.feasible, outer, space)
  /\ ret' = ret.feasible
  /\ ev' = [op |-> "assess_bs", ans |-> ret.feasible,
            feasible_at |-> IF ev.op = "assess" /\ ev.cut = NoCut
                              THEN ev.xc ELSE Empty,
            inner_moved |-> space.shape # outer.shape]
  /\ space' = [xc |-> 0, tsq |-> 0, shape |-> 0]
  /\ niter' = 0 /\ cut' = NoCut /\ calls' = 0 /\ updates' = 0
  /\ pc' = "idle"
  /\ UNCHANGED <<prog, options, shrunk, x_best, retry, status, more_alt, obs,
                 lower, upper, u_orig, omega, tea>>
  /\ UNCHANGED ldlt_vars

NextAdaptor ==
  \/ assess_bs_begin
  \/ cutting_plane_feas_assess
  \/ cutting_plane_feas_update
  \/ cutting_plane_feas_cap
  \/ assess_bs_end

SpecAdaptor == InitAdaptor /\ [][NextAdaptor]_vars

(* C9: bsearch_adaptor::assess_bs calls omega.update(tea), runs            *)
(* cutting_plane_feas on a copy of the outer space and returns its         *)
(* feasible flag.  An infeasible inner solve leaves the outer space        *)
(* unchanged; a feasible one changes only its center, to the inner center  *)
(* at which the oracle reported feasibility.  The inner cuts never change  *)
(* the outer space's shape or tsq.                                         *)
C9_AdaptorFrame ==
  /\ outer.shape = obs.outer0.shape /\ outer.tsq = obs.outer0.tsq
  /\ pc \in {"assess", "update", "done"} =>
       /\ omega = tea
       /\ outer = obs.before
       /\ calls = 0 => space = outer
  /\ pc = "idle" /\ ev.op = "assess_bs" =>
       /\ ev.ans = ret
       /\ omega = tea
       /\ IF ev.ans
            THEN /\ ev.feasible_at # Empty
                 /\ outer = [obs.before EXCEPT !.xc = ev.feasible_at]
            ELSE outer = obs.before

C9_Witness ==
  /\ pc = "idle" /\ ev.op = "assess_bs" /\ ev.ans /\ ev.inner_moved
  /\ outer.xc # obs.before.xc
  /\ obs.before # obs.outer0

----------------------------------------------------------------------------
(* LDLTMgr *)

MaxDim == 3

\* the values the accessor's matrix takes on and off its diagonal; beyond
\* dimension 3 the off-diagonal entries are +-1 only and the diagonal is
\* non-negative, which keeps the number of matrices enumerable
DiagVals == {-1, 0, 1, 2}
DiagValsFor(dim) == IF dim <= 3 THEN DiagVals ELSE DiagVals \ {-1}
OffVals(dim) == IF dim <= 3 THEN {-1, 0, 1} ELSE {-1, 1}

(* `double` values are exact rationals <<numerator, denominator>> in       *)
(* lowest terms with a positive denominator; a division by zero gives      *)
(* NaN, which every later operation keeps and every comparison rejects.    *)
Abs(x) == IF x < 0 THEN -x ELSE x

RECURSIVE Gcd(_, _)
Gcd(a, b) == IF b = 0 THEN a ELSE Gcd(b, a % b)

NaN == <<0, 0>>

Rat(nu, de) ==
  IF de = 0 THEN NaN
  ELSE LET g == Gcd(Abs(nu), Abs(de))
           sg == IF de < 0 THEN -1 ELSE 1
       IN <<(sg * nu) \div g, (sg * de) \div g>>

RInt(k) == <<k, 1>>
RAdd(a, b) == Rat(a[1] * b[2] + b[1] * a[2], a[2] * b[2])
RSub(a, b) == Rat(a[1] * b[2] - b[1] * a[2], a[2] * b[2])
RMul(a, b) == Rat(a[1] * b[1], a[2] * b[2])
RDiv(a, b) == Rat(a[1] * b[2], a[2] * b[1])
RNeg(a) == <<-a[1], a[2]>>
RLe0(a) == a[2] # 0 /\ a[1] <= 0      \* a <= 0.0
RLt0(a) == a[2] # 0 /\ a[1] < 0       \* a < 0.0
REq0(a) == a[2] # 0 /\ a[1] = 0       \* a == 0.0

Idx == 0..(n - 1)

\* the symmetric matrix with diagonal dg and strictly lower triangle lo
SymMatrix(dim, dg, lo) ==
  [i \in 0..(dim - 1) |-> [j \in 0..(dim - 1) |->
     IF i = j THEN dg[i] ELSE IF j < i THEN lo[<<i, j>>] ELSE lo[<<j, i>>]]]

SymMatrices(dim) ==
  {SymMatrix(dim, dg, lo) :
     dg \in [0..(dim - 1) -> DiagValsFor(dim)],
     lo \in [{ij \in (0..(dim - 1)) \X (0..(dim - 1)) : ij[2] < ij[1]} ->
               OffVals(dim)]}

\* the accessor get_matrix_elem(i, j) handed to the factorizations
get_matrix_elem(i, j) == RInt(A[i][j])

\* the manager after construction: workspace and witness vector zeroed
ZeroT(dim) == [i \in 0..(dim - 1) |-> [j \in 0..(dim - 1) |-> RInt(0)]]
ZeroVec(dim) == [i \in 0..(dim - 1) |-> RInt(0)]

\* is_spd(): no failing pivot was recorded
is_spd(pp) == pp[2] = 0

\* lines 18-20: for (k = start; k != s; ++k) d -= T(i, k) * T(k, s)
RECURSIVE ldlt_k_loop(_, _, _, _, _)
ldlt_k_loop(Tm, i, s, k, d) ==
  IF k = s THEN d
  ELSE ldlt_k_loop(Tm, i, s, k + 1, RSub(d, RMul(Tm[i][k], Tm[k][s])))

\* line 17 with the accessor's arguments exchanged: get_matrix_elem(s, i)
ldlt_j_body_transposed(st, start, i, j) ==
  LET s == j + 1
      Lij == RDiv(st.d, st.T[j][j])
  IN CHOOSE nx \in {[T |-> [st.T EXCEPT ![j][i] = st.d, ![i][j] = Lij],
                     reads |-> Append(st.reads, <<s, i>>)]} : TRUE

\* lines 14-20: the body of the j loop; st = [T, d, reads]
ldlt_j_body(st, start, i, j) ==
  LET s == j + 1
      Lij == RDiv(st.d, st.T[j][j])
  IN \* T(j, i) = d; T(i, j) = d / T(j, j); then d for column s
     CHOOSE nx \in {[T |-> [st.T EXCEPT ![j][i] = st.d, ![i][j] = Lij],
                     reads |-> Append(st.reads, <<i, s>>)]} : TRUE

\* lines 13-21: for (j = start; j != i; ++j) { ... }
RECURSIVE ldlt_j_loop(_, _, _, _)
ldlt_j_loop(st, start, i, j) ==
  IF j = i THEN st
  ELSE LET nx == ldlt_j_body(st, start, i, j)
           Go(y) == ldlt_j_loop([T |-> y.T,
                                 d |-> ldlt_k_loop(y.T, i, j + 1, start,
                                                   get_matrix_elem(i, j + 1)),
                                 reads |-> y.reads], start, i, j + 1)
       IN Go(nx)

\* lines 12-22: row i of the factorization; the pivot ends in T(i, i)
ldlt_row(Tm, rd, start, i) ==
  LET Fin(st) == [T |-> [st.T EXCEPT ![i][i] = st.d], d |-> st.d,
                  reads |-> st.reads]
  IN Fin(ldlt_j_loop([T |-> Tm, d |-> get_matrix_elem(i, start),
                      reads |-> Append(rd, <<i, start>>)], start, i, start))

\* line 24: if (d <= 0.0)
factor_fails_only_negative(d) == RLt0(d)

factor_fails(d) == RLe0(d)

\* lines 10-28: for (i = 0; i != _n; ++i); st = [T, p, reads]
RECURSIVE factor_loop(_, _)
factor_loop(st, i) ==
  IF i = n THEN st
  ELSE LET Step(row) ==
             IF factor_fails(row.d)
               THEN [T |-> row.T, p |-> <<st.p[1], i + 1>>, reads |-> row.reads]
               ELSE factor_loop([T |-> row.T, p |-> st.p, reads |-> row.reads],
                                i + 1)
       IN Step(ldlt_row(st.T, st.reads, st.p[1], i))

\* lines 58-61 without the restart: a zero pivot leaves start alone
semidef_restart_never(d, pp, i) == pp

\* lines 58-61: if (d == 0.0) { start = i + 1; }
semidef_restart(d, pp, i) == IF REq0(d) THEN <<i + 1, pp[2]>> ELSE pp

\* lines 39-62: the loop of factor_with_allow_semidefinte
RECURSIVE semidef_loop(_, _)
semidef_loop(st, i) ==
  IF i = n THEN st
  ELSE LET Step(row) ==
             IF RLt0(row.d)
               THEN [T |-> row.T, p |-> <<st.p[1], i + 1>>, reads |-> row.reads]
               ELSE semidef_loop(
                      [T |-> row.T,
                       p |-> semidef_restart(row.d, st.p, i),
                       reads |-> row.reads], i + 1)
       IN Step(ldlt_row(st.T, st.reads, st.p[1], i))

\* an LDLTMgr of dimension n and the matrix its accessor will be bound to
InitLdlt ==
  /\ prog = "ldlt"
  /\ pc = "idle"
  /\ n \in 1..MaxDim
  /\ A \in SymMatrices(n)
  /\ T = ZeroT(n)
  /\ p = <<0, 0>>
  /\ witness_vec = ZeroVec(n)
  /\ reads = <<>>
  /\ lmi = <<>>
  /\ options = [max_iter |-> 0, tol |-> 1]
  /\ space = [xc |-> 0, tsq |-> 0, shape |-> 0]
  /\ DriverLocals
  /\ retry = FALSE
  /\ status = "NoSoln"
  /\ obs = [T_before |-> ZeroT(n)]
  /\ BsIdle

\* LDLTMgr::factor (lines 4-31)
factor ==
  /\ prog = "ldlt"
  /\ \E st \in {factor_loop([T |-> T, p |-> <<0, 0>>, reads |-> <<>>], 0)} :
     /\ T' = st.T
     /\ p' = st.p
     /\ reads' = st.reads
     /\ ret' = is_spd(st.p)
     /\ ev' = [op |-> "factor"]
     /\ obs' = [obs EXCEPT !.T_before = T]
  /\ UNCHANGED <<prog, pc, options, space, niter, cut, shrunk, x_best, retry,
                 status, more_alt, calls, updates, n, A, witness_vec, lmi>>
  /\ UNCHANGED bs_vars

\* LDLTMgr::factor_with_allow_semidefinte (lines 33-64)
factor_with_allow_semidefinte ==
  /\ prog = "ldlt"
  /\ \E st \in {semidef_loop([T |-> T, p |-> <<0, 0>>, reads |-> <<>>], 0)} :
     /\ T' = st.T
     /\ p' = st.p
     /\ reads' = st.reads
     /\ ret' = is_spd(st.p)
     /\ ev' = [op |-> "factor_with_allow_semidefinte"]
     /\ obs' = [obs EXCEPT !.T_before = T]
  /\ UNCHANGED <<prog, pc, options, space, niter, cut, shrunk, x_best, retry,
                 status, more_alt, calls, updates, n, A, witness_vec, lmi>>
  /\ UNCHANGED bs_vars

\* line 78 with the sign of the update flipped
RECURSIVE witness_k_loop_plus(_, _, _, _, _)
witness_k_loop_plus(Tm, v, i, k, stop) ==
  IF k = stop THEN v
  ELSE witness_k_loop_plus(
         Tm, [v EXCEPT ![i - 1] = RAdd(@, RMul(Tm[k][i - 1], v[k]))],
         i, k + 1, stop)

\* lines 77-79: for (k = i; k != n; ++k) witness_vec[i-1] -= T(k, i-1) * witness_vec[k]
RECURSIVE witness_k_loop(_, _, _, _, _)
witness_k_loop(Tm, v, i, k, stop) ==
  IF k = stop THEN v
  ELSE witness_k_loop(
         Tm, [v EXCEPT ![i - 1] = RSub(@, RMul(Tm[k][i - 1], v[k]))],
         i, k + 1, stop)

\* lines 75-80: for (i = m; i > start; --i) { witness_vec[i-1] = 0.0; ... }
RECURSIVE witness_i_loop(_, _, _, _, _)
witness_i_loop(Tm, v, i, start, stop) ==
  IF ~(i > start) THEN v
  ELSE witness_i_loop(
         Tm, witness_k_loop(Tm, [v EXCEPT ![i - 1] = RInt(0)], i, i, stop),
         i - 1, start, stop)

\* LDLTMgr::witness (lines 67-82); the assertion of line 68 is its
\* precondition
witness ==
  /\ prog = "ldlt"
  /\ ~is_spd(p)
  /\ \E m \in {p[2] - 1} :
       /\ witness_vec' = witness_i_loop(T, [witness_vec EXCEPT ![m] = RInt(1)],
                                        m, p[1], p[2])
       /\ ret' = RNeg(T[m][m])
  /\ ev' = [op |-> "witness",
            after |-> IF ev.op = "witness" THEN ev.after ELSE ev.op]
  /\ UNCHANGED <<prog, pc, options, space, niter, cut, shrunk, x_best, retry,
                 status, more_alt, calls, updates, obs, n, A, T, p, reads, lmi>>
  /\ UNCHANGED bs_vars

\* sym_quad(M): v' M v over the index range [start, stop) of the last
\* failed factorization
RECURSIVE quad_sum(_, _, _, _, _)
quad_sum(M, v, pp, i, j) ==
  IF i = pp[2] THEN RInt(0)
  ELSE IF j = pp[2] THEN quad_sum(M, v, pp, i + 1, pp[1])
  ELSE RAdd(RMul(RMul(v[i], RInt(M[i][j])), v[j]), quad_sum(M, v, pp, i, j + 1))

sym_quad(M) == quad_sum(M, witness_vec, p, p[1], p[1])

NextLdlt ==
  \/ factor
  \/ factor_with_allow_semidefinte
  \/ witness

SpecLdlt == InitLdlt /\ [][NextLdlt]_vars

\* the determinant of the leading k x k block of A (cofactor expansion along
\* the last row); Minor(0) = 1
RECURSIVE Det(_, _)
Det(rows, cols) ==
  IF Len(rows) = 0 THEN 1
  ELSE LET m == Len(rows)
           r == rows[m]
           rest == SubSeq(rows, 1, m - 1)
           Drop(c) == [q \in 1..(m - 1) |-> IF q < c THEN cols[q] ELSE cols[q + 1]]
           Sign(c) == IF (m + c) % 2 = 0 THEN 1 ELSE -1
           RECURSIVE Sum(_)
           Sum(c) == IF c = 0 THEN 0
                     ELSE Sign(c) * A[r][cols[c]] * Det(rest, Drop(c)) + Sum(c - 1)
       IN Sum(m)

Minor(k) == LET ix == [q \in 1..k |-> q - 1] IN Det(ix, ix)

\* the leading principal minors Minor(0), ..., Minor(n) of A
Minors == [k \in 0..n |-> Minor(k)]

\* the smallest index whose pivot mn[i+1]/mn[i] is not strictly positive
\* (every earlier pivot being positive), or -1 when there is none
FirstBad(mn) ==
  LET bad == {i \in Idx : mn[i + 1] <= 0} IN
  IF bad = {} THEN -1 ELSE CHOOSE i \in bad : \A k \in bad : i <= k

(* C10: LDLTMgr::factor returns true iff every pivot D[i], i in [0, n), of *)
(* the accessor's matrix is strictly positive; otherwise it returns false  *)
(* with p = (0, i+1) for the smallest i whose pivot is <= 0, having read   *)
(* no matrix element of a row beyond i and computed no later pivot.        *)
C10_FactorFirstBadPivot ==
  ev.op = "factor" =>
    \A mn \in {Minors} : \A i \in {FirstBad(mn)} :
    \A last \in {IF i = -1 THEN n - 1 ELSE i} :
      /\ ret = (i = -1)
      /\ p = <<0, i + 1>>
      /\ \A k \in 0..last : T[k][k] = Rat(mn[k + 1], mn[k])
      /\ \A k \in 0..(last - 1) : ~RLe0(T[k][k])
      /\ i # -1 => RLe0(T[i][i])
      /\ \A q \in 1..Len(reads) :
            reads[q][1] <= last /\ reads[q][2] <= reads[q][1]
      /\ \A k \in Idx : k > last => T[k] = obs.T_before[k]

C10_Witness ==
  /\ ev.op = "factor" /\ n = 3 /\ ret = FALSE /\ p = <<0, 2>>
  /\ RLt0(T[1][1])
  /\ obs.T_before # ZeroT(n)

\* the determinant of the k x k diagonal block of A that starts at index s
BlockMinor(s, k) == LET ix == [q \in 1..k |-> s + q - 1] IN Det(ix, ix)

\* the pivots of the restarted factorization, from determinants: the pivot
\* of row i is the ratio of two minors of the block that begins at the
\* current start s; a zero pivot moves s to i + 1, a negative one stops.
\* r = [bad, start, startAt, piv]
RECURSIVE RefSemidef(_, _, _)
RefSemidef(i, s, r) ==
  IF i = n THEN [r EXCEPT !.start = s]
  ELSE LET Go(pv) ==
             IF RLt0(pv)
               THEN [r EXCEPT !.piv[i] = pv, !.startAt[i] = s, !.bad = i,
                              !.start = s]
               ELSE RefSemidef(i + 1, IF REq0(pv) THEN i + 1 ELSE s,
                               [r EXCEPT !.piv[i] = pv, !.startAt[i] = s])
       IN Go(Rat(BlockMinor(s, i - s + 1), BlockMinor(s, i - s)))

RefSemidefInit ==
  [bad |-> -1, start |-> 0, startAt |-> [i \in Idx |-> 0],
   piv |-> [i \in Idx |-> NaN]]

(* C11: factor_with_allow_semidefinte returns false iff some pivot is      *)
(* strictly negative, with stop = i+1 for the first such i.  A pivot that  *)
(* is exactly 0 at index i does not fail: it sets start = i+1 and the      *)
(* factorization restarts there, every later pivot being computed only     *)
(* from entries with row and column index >= start.  A matrix all of whose *)
(* pivots are >= 0 is reported true.                                       *)
C11_SemidefRestart ==
  ev.op = "factor_with_allow_semidefinte" =>
    \A r \in {RefSemidef(0, 0, RefSemidefInit)} :
    \A last \in {IF r.bad = -1 THEN n - 1 ELSE r.bad} :
      /\ ret = (r.bad = -1)
      /\ p = <<r.start, r.bad + 1>>
      /\ \A k \in 0..last :
            /\ T[k][k] = r.piv[k]
            /\ k < last => ~RLt0(T[k][k])
            /\ REq0(T[k][k]) /\ k < last => r.startAt[k + 1] = k + 1
      /\ r.bad # -1 => RLt0(T[r.bad][r.bad])
      /\ \A q \in 1..Len(reads) :
            /\ reads[q][1] <= last
            /\ reads[q][2] <= reads[q][1]
            /\ reads[q][2] >= r.startAt[reads[q][1]]

C11_Witness ==
  /\ ev.op = "factor_with_allow_semidefinte" /\ n = 3
  /\ ret = FALSE /\ p = <<1, 3>>
  /\ REq0(T[0][0]) /\ RLt0(T[2][2])
  /\ A[1][0] # 0 /\ A[2][0] # 0

\* the vector witness() builds: witness_vec on [start, stop), zero elsewhere
BuiltVec == [i \in Idx |-> IF p[1] <= i /\ i < p[2] THEN witness_vec[i]
                                                    ELSE RInt(0)]

\* v' M v, summed over all index pairs k = n*i + j
RECURSIVE QuadFrom(_, _, _)
QuadFrom(M, v, k) ==
  IF k = n * n THEN RInt(0)
  ELSE RAdd(RMul(RMul(v[k \div n], RInt(M[k \div n][k % n])), v[k % n]),
            QuadFrom(M, v, k + 1))

QuadForm(M, v) == QuadFrom(M, v, 0)

\* C12 as stated: after a failed factor, witness() returns a strictly
\* positive ep = -D[stop-1] and builds v with v' A v = -ep < 0, v nonzero
\* on [start, stop)
C12_Original ==
  ev.op = "witness" /\ ev.after = "factor" =>
    /\ RLt0(RNeg(ret))
    /\ ret = RNeg(Rat(Minor(p[2]), Minor(p[2] - 1)))
    /\ QuadForm(A, BuiltVec) = RNeg(ret)
    /\ RLt0(QuadForm(A, BuiltVec))
    /\ \E i \in p[1]..(p[2] - 1) : ~REq0(witness_vec[i])

(* C12: whenever factor has returned false, the following witness() call   *)
(* returns a non-negative scalar ep = -D[stop-1], and the vector v it      *)
(* builds satisfies v' A v = -ep <= 0 for the accessor's matrix A, with v  *)
(* not the zero vector on [start, stop).                                   *)
C12_WitnessCertificate ==
  ev.op = "witness" /\ ev.after = "factor" =>
    /\ ~RLt0(ret) /\ ret # NaN
    /\ ret = RNeg(Rat(Minor(p[2]), Minor(p[2] - 1)))
    /\ \A q \in {QuadForm(A, BuiltVec)} : q = RNeg(ret) /\ RLe0(q)
    /\ \E i \in p[1]..(p[2] - 1) : ~REq0(witness_vec[i])

C12_Witness ==
  /\ ev.op = "witness" /\ ev.after = "factor" /\ n = 3 /\ p = <<0, 3>>
  /\ RLt0(RNeg(ret))
  /\ ~REq0(witness_vec[0]) /\ ~REq0(witness_vec[1])
  /\ RLt0(QuadForm(A, BuiltVec))

(* C14: after any sequence of factor and factor_with_allow_semidefinte     *)
(* calls on one LDLTMgr the pivot range p = (start, stop) satisfies        *)
(* start <= stop <= n, after a successful and after a failed               *)
(* factorization alike.                                                    *)
C14_PivotRangeOrdered ==
  ev.op \in {"factor", "factor_with_allow_semidefinte"} =>
    p[1] <= p[2] /\ p[2] <= n

\* the sum over k in [k, stop) of L[k, i] * witness_vec[k], L being the
\* strictly lower triangle of T
RECURSIVE LSum(_, _)
LSum(i, k) ==
  IF k >= p[2] THEN RInt(0)
  ELSE RAdd(RMul(T[k][i], witness_vec[k]), LSum(i, k + 1))

(* C15: after witness() returns, witness_vec[i] = 0 for every i < start,   *)
(* witness_vec[stop-1] = 1, and witness_vec[i] is minus the sum over       *)
(* i < k < stop of L[k,i] * witness_vec[k] for start <= i < stop-1; this   *)
(* holds for any history of the same manager, also when earlier failed     *)
(* factorizations and earlier witness() calls have written witness_vec.    *)
C15_WitnessVecShape ==
  ev.op = "witness" =>
    /\ \A i \in Idx : i < p[1] => REq0(witness_vec[i])
    /\ witness_vec[p[2] - 1] = RInt(1)
    /\ \A i \in Idx : p[1] <= i /\ i < p[2] - 1 =>
          witness_vec[i] = RNeg(LSum(i, i + 1))

----------------------------------------------------------------------------
(* The accessor of the QMI oracle *)

\* part_002 lines 21-35: one call getA(i, j) on c = [count, filled, ok];
\* count is _count, filled the rows of _Fx written since _count = 0, ok
\* tells that the assertion held and that both rows read were filled
qmi_getA(c, i, j) ==
  LET fill == c.count < i + 1
      cnt == IF fill THEN i + 1 ELSE c.count
      fl == IF fill THEN c.filled \cup {i} ELSE c.filled
  IN [count |-> cnt, filled |-> fl,
      ok |-> c.ok /\ i >= j /\ i \in fl /\ j \in fl]

\* the accessor calls of one factorization, from call q on
RECURSIVE qmi_calls(_, _, _)
qmi_calls(c, rd, q) ==
  IF q > Len(rd) THEN c
  ELSE qmi_calls(qmi_getA(c, rd[q][1], rd[q][2]), rd, q + 1)

(* C16: during factor and factor_with_allow_semidefinte the accessor is    *)
(* called only with pairs (i, j), j <= i, and the row index i is           *)
(* non-decreasing over the calls of one factorization, every row below i   *)
(* having been read before row i is first read.  Consequently the          *)
(* assertion i >= j of the QMI oracle's accessor never fails and every     *)
(* cached row j <= i it reads was filled by an earlier call.               *)
C16_AccessorOrder ==
  ev.op \in {"factor", "factor_with_allow_semidefinte"} =>
    /\ \A q \in 1..Len(reads) :
          /\ reads[q][2] <= reads[q][1]
          /\ q > 1 => reads[q - 1][1] <= reads[q][1]
          /\ \A r \in 0..(reads[q][1] - 1) :
                \E q0 \in 1..(q - 1) : reads[q0][1] = r
    /\ qmi_calls([count |-> 0, filled |-> {}, ok |-> TRUE], reads, 1).ok

C16_Witness ==
  /\ ev.op = "factor_with_allow_semidefinte" /\ n = 3 /\ p = <<1, 0>>
  /\ reads = <<<<0, 0>>, <<1, 1>>, <<2, 1>>, <<2, 2>>>>
  /\ qmi_calls([count |-> 0, filled |-> {}, ok |-> TRUE], reads, 1).filled
       = {0, 1, 2}

----------------------------------------------------------------------------
(* LmiOracle::assess_feas *)

\* the indices of x and of the matrices _F[k]
XIdx == {0, 1}
XVals == {-1, 0, 1}

\* the matrices of the oracle: one value on the diagonal, one off it
LmiMatrices(dim, dgs, offs) ==
  {SymMatrix(dim, [i \in 0..(dim - 1) |-> a],
             [ij \in {ij \in (0..(dim - 1)) \X (0..(dim - 1)) : ij[2] < ij[1]}
                |-> b]) : a \in dgs, b \in offs}

\* lines 45-51: getA(i, j) = _F0(i, j) - sum over k of _F[k](i, j) * x[k]
getA(x, i, j) ==
  lmi.F0[i][j] - lmi.F[0][i][j] * x[0] - lmi.F[1][i][j] * x[1]

\* the calls of assess_feas with sym_quad made before witness
assess_feas_after_quad_first(at, spd) ==
  CASE at = "factor" -> IF spd THEN "idle" ELSE "sym_quad"
    [] at = "sym_quad" -> "witness"
    [] at = "witness" -> "return"

\* lines 53-64: what assess_feas does after the call `at` returned
assess_feas_after(at, spd) ==
  CASE at = "factor" -> IF spd THEN "idle" ELSE "witness"
    [] at = "witness" -> "sym_quad"
    [] at = "sym_quad" -> "return"

LmiFrame ==
  UNCHANGED <<prog, options, space, niter, cut, shrunk, x_best, retry, status,
              more_alt, calls, updates, obs, n, bs_vars>>

\* an LmiOracle over matrices of dimension n (lines 32-34)
InitLmi ==
  /\ prog = "lmi"
  /\ pc = "idle"
  /\ n \in 1..MaxDim
  /\ \E B \in LmiMatrices(n, {0, 1, 2}, {-1, 0, 1}),
        F \in [XIdx -> LmiMatrices(n, {0, 1}, {0, 1})] :
       lmi = [F0 |-> B, F |-> F, cut |-> [first |-> <<>>, second |-> RInt(0)],
              x |-> [k \in XIdx |-> 0], g |-> <<>>, ep |-> RInt(0),
              log |-> <<>>]
  /\ A = [i \in 0..(n - 1) |-> [j \in 0..(n - 1) |-> 0]]
  /\ T = ZeroT(n)
  /\ p = <<0, 0>>
  /\ witness_vec = ZeroVec(n)
  /\ reads = <<>>
  /\ options = [max_iter |-> 0, tol |-> 1]
  /\ space = [xc |-> 0, tsq |-> 0, shape |-> 0]
  /\ DriverLocals
  /\ retry = FALSE
  /\ status = "NoSoln"
  /\ obs = [T_before |-> ZeroT(n)]
  /\ BsIdle

\* lines 42-51: a call assess_feas(x); the accessor getA is bound to x
assess_feas_begin ==
  /\ prog = "lmi" /\ pc = "idle"
  /\ \E x \in [XIdx -> XVals] :
       /\ A' = [i \in Idx |-> [j \in Idx |-> getA(x, i, j)]]
       /\ lmi' = [lmi EXCEPT !.x = x, !.g = <<>>, !.log = <<>>]
  /\ pc' = "factor"
  /\ ev' = [op |-> "getA"]
  /\ UNCHANGED <<ret, T, p, witness_vec, reads>>
  /\ LmiFrame

\* lines 53-55: if (_mq.factor(getA)) return nullptr
assess_feas_factor ==
  /\ prog = "lmi" /\ pc = "factor"
  /\ \E st \in {factor_loop([T |-> T, p |-> <<0, 0>>, reads |-> <<>>], 0)} :
       /\ T' = st.T
       /\ p' = st.p
       /\ reads' = st.reads
       /\ pc' = assess_feas_after("factor", is_spd(st.p))
       /\ ret' = IF is_spd(st.p) THEN [null |-> TRUE] ELSE ret
       /\ ev' = IF is_spd(st.p) THEN [op |-> "assess_feas"] ELSE [op |-> "factor"]
  /\ lmi' = [lmi EXCEPT !.log = Append(@, "factor")]
  /\ UNCHANGED <<A, witness_vec>>
  /\ LmiFrame

\* line 57: auto ep = _mq.witness()
assess_feas_witness ==
  /\ prog = "lmi" /\ pc = "witness"
  /\ ~is_spd(p)
  /\ \E m \in {p[2] - 1} :
       /\ witness_vec' = witness_i_loop(T, [witness_vec EXCEPT ![m] = RInt(1)],
                                        m, p[1], p[2])
       /\ lmi' = [lmi EXCEPT !.ep = RNeg(T[m][m]), !.log = Append(@, "witness")]
  /\ pc' = assess_feas_after("witness", FALSE)
  /\ ev' = [op |-> "witness", after |-> "factor"]
  /\ UNCHANGED <<ret, A, T, p, reads>>
  /\ LmiFrame

\* lines 59-61: g[i] = _mq.sym_quad(_F[i]), one pass of the loop
assess_feas_sym_quad ==
  /\ prog = "lmi" /\ pc = "sym_quad"
  /\ \E i \in {Len(lmi.g)} :
       /\ lmi' = [lmi EXCEPT !.g = Append(@, sym_quad(lmi.F[i])),
                             !.log = Append(@, "sym_quad")]
       /\ pc' = IF i + 1 = Cardinality(XIdx)
                  THEN assess_feas_after("sym_quad", FALSE) ELSE "sym_quad"
  /\ ev' = [op |-> "sym_quad"]
  /\ UNCHANGED <<ret, A, T, p, witness_vec, reads>>
  /\ LmiFrame

\* lines 62-64: the cut (g, ep) is stored and returned
assess_feas_return ==
  /\ prog = "lmi" /\ pc = "return"
  /\ \E c \in {[first |-> lmi.g, second |-> lmi.ep]} :
       /\ lmi' = [lmi EXCEPT !.cut = c]
       /\ ret' = [null |-> FALSE, first |-> c.first, second |-> c.second]
  /\ pc' = "idle"
  /\ ev' = [op |-> "assess_feas"]
  /\ UNCHANGED <<A, T, p, witness_vec, reads>>
  /\ LmiFrame

NextLmi ==
  \/ assess_feas_begin
  \/ assess_feas_factor
  \/ assess_feas_witness
  \/ assess_feas_sym_quad
  \/ assess_feas_return

SpecLmi == InitLmi /\ [][NextLmi]_vars

(* C13: assess_feas returns null iff factor reports B - sum x_k F_k        *)
(* positive-definite at x.  Otherwise it returns a cut (g, beta) in which  *)
(* beta is the value witness() returned for that failed factorization (so  *)
(* beta >= 0) and g_i = sym_quad(F_i) for every i; within one call         *)
(* witness() is called exactly once, after factor and before every         *)
(* sym_quad call, and neither is called when factor succeeds.              *)
C13_AssessFeasCut ==
  /\ pc = "sym_quad" => lmi.log[Len(lmi.log) - Len(lmi.g)] = "witness"
  /\ pc = "witness" => lmi.log = <<"factor">>
  /\ ev.op = "assess_feas" =>
       /\ A = [i \in Idx |-> [j \in Idx |->
                 lmi.F0[i][j] - lmi.F[0][i][j] * lmi.x[0]
                              - lmi.F[1][i][j] * lmi.x[1]]]
       /\ ret.null = is_spd(p)
       /\ ret.null = (FirstBad(Minors) = -1)
       /\ ret.null => lmi.log = <<"factor">>
       /\ ~ret.null =>
            /\ lmi.log = <<"factor", "witness", "sym_quad", "sym_quad">>
            /\ ret.second = RNeg(T[p[2] - 1][p[2] - 1])
            /\ ~RLt0(ret.second) /\ ret.second # NaN
            /\ QuadForm(A, BuiltVec) = RNeg(ret.second)
            /\ ret.first = <<QuadForm(lmi.F[0], BuiltVec),
                             QuadForm(lmi.F[1], BuiltVec)>>
            /\ lmi.cut = [first |-> ret.first, second |-> ret.second]

C13_Witness ==
  /\ ev.op = "assess_feas" /\ ~ret.null /\ n = 3 /\ p[2] = 3
  /\ ~REq0(ret.first[1]) /\ ~REq0(ret.first[2]) /\ ret.first[1] # ret.first[2]
  /\ RLt0(RNeg(ret.second))
  /\ lmi.x[0] # 0 /\ lmi.x[1] # 0

----------------------------------------------------------------------------
(* The whole program: a run is one of the entry points above *)

Init ==
  \/ InitFeas
  \/ InitOptim
  \/ InitQ
  \/ InitBsearch
  \/ InitAdaptor
  \/ InitLdlt
  \/ InitLmi

Next ==
  \/ NextFeas
  \/ NextOptim
  \/ NextQ
  \/ NextBsearch
  \/ NextAdaptor
  \/ NextLdlt
  \/ NextLmi

Spec == Init /\ [][Next]_vars

====
